---- MODULE Spec2Model ----
(***************************************************************************)
(* RethinkStore (src/rethinkstore.go, the version with the expires field): *)
(* a gorilla/sessions store over one RethinkDB table.  The model keeps the *)
(* table, the store object, the session objects handed to callers, the     *)
(* open requests with their cookie and registry, the cookie values sent to *)
(* clients, and a wall clock in seconds.                                   *)
(***************************************************************************)
EXTENDS Integers, Sequences, FiniteSets, TLC

\* ---------------------------------------------------------------- bounds
MaxSess == 2
MaxReq == 1
MaxTicks == 1
MaxIds == 1
RaceReqs == 2

\* ------------------------------------------------------- program constants
sessionExpire == 2592000

\* --------------------------------------------------------------- inputs
\* Seconds the clock may advance by in one step.
Advances == {1}
\* Values a caller writes to session.Options.MaxAge.
MaxAges == {-1, 0}
\* Keys and values of session.Values.
Keys == {"foo"}
Vals == {"bar"}
\* What can go wrong in one Save: gob cannot encode the types held in Values, the
\* database rejects the write, or the codec fails to encode the id.
Faults == {"none", "gob", "db", "codec"}
\* What can go wrong in one load: the query fails, or gob cannot decode the payload.
LoadFaults == {"none", "db", "gob"}
\* The ids GenerateRandomKey can yield, numbered in order of generation; 0 is "".
NoID == 0
EmptyValues == [k \in {} |-> "bar"]
ValueMaps == UNION {[K -> Vals] : K \in SUBSET Keys}
\* Positive values of Options.MaxAge, a shorter one and the default.
PositiveAges == {3600, sessionExpire}
\* Values two handlers write when they change the same session differently.
RaceVals == {"bar", "baz"}
RaceValueMaps == UNION {[K -> RaceVals] : K \in SUBSET Keys}

\* Cookie values: no cookie on the request, the empty value "", or the codec's
\* encoding of an id: the id and whether the MAC still matches the content.
NoCookie == [kind |-> "none"]
EmptyCookie == [kind |-> "empty"]
DefaultOptions == [Path |-> "/", MaxAge |-> sessionExpire]
\* A free slot of the session heap, and of the open requests.
NoSession == [live |-> FALSE]
NoRequest == [open |-> FALSE]
\* No Save of the request is between its save's computation and its Replace.
NoDoc == [busy |-> FALSE]

VARIABLES table, store, sessions, requests, jar, now, nextId, last, saved, deletedIds, zero,
          inflight

vars == <<table, store, sessions, requests, jar, now, nextId, last, saved, deletedIds, zero, inflight>>

\* ------------------------------------------------------------ gob payload
RECURSIVE SetToSeq(_)
SetToSeq(S) ==
    IF S = {} THEN <<>>
    ELSE LET k == CHOOSE x \in S : TRUE IN <<k>> \o SetToSeq(S \ {k})

\* gob's Encode of session.Values: one <<key, value>> entry per map element, or
\* an error when a value's type cannot be encoded.
GobEncode(values, gobOk) ==
    IF ~gobOk
    THEN [err |-> "gob", bytes |-> <<>>]
    ELSE LET ks == SetToSeq(DOMAIN values)
         IN [err |-> "nil", bytes |-> [i \in 1..Len(ks) |-> <<ks[i], values[ks[i]]>>]]

\* Variant of GobDecode that stores nothing into the map.
GobDecodeMutKeep(values, bytes, gobOk) ==
    [err |-> IF gobOk THEN "nil" ELSE "gob", values |-> values]

\* gob's Decode into an existing map: the decoded entries are stored into it, or
\* an error when the bytes are not a gob stream of the map's type.
GobDecode(values, bytes, gobOk) ==
    LET ks == {bytes[i][1] : i \in 1..Len(bytes)}
        at(k) == bytes[CHOOSE i \in 1..Len(bytes) : bytes[i][1] = k][2]
    IN IF ~gobOk
       THEN [err |-> "gob", values |-> values]
       ELSE [err |-> "nil",
             values |-> [k \in DOMAIN values \cup ks |->
                           IF k \in ks THEN at(k) ELSE values[k]]]

\* ------------------------------------------------------------ cookie codec
\* securecookie.EncodeMulti(name, id): the signed id.
EncodeMulti(id) == [kind |-> "enc", id |-> id, mac |-> TRUE]

\* securecookie.DecodeMulti: the value must be an encoding whose MAC matches.
DecodeOk(c) ==
    /\ c.kind = "enc"
    /\ c.mac

\* ---------------------------------------------------------------- database
\* r.Table(t).Get(id): the record with that primary key, if any.
TableGet(tbl, id) == {rec \in tbl : rec.id = id}

\* Variant of Replace that writes only when a record of the id exists (an update).
ReplaceMutUpdateOnly(tbl, doc) ==
    IF TableGet(tbl, doc.id) = {} THEN tbl ELSE (tbl \ TableGet(tbl, doc.id)) \cup {doc}

\* Variant of Replace that keeps the expires of the record it replaces.
ReplaceMutKeepExpires(tbl, doc) ==
    IF TableGet(tbl, doc.id) = {}
    THEN tbl \cup {doc}
    ELSE (tbl \ TableGet(tbl, doc.id))
         \cup {[doc EXCEPT !.expires = old.expires] : old \in TableGet(tbl, doc.id)}

\* Variant of Replace that inserts without removing the record of the same id.
ReplaceMutInsert(tbl, doc) == tbl \cup {doc}

\* r.Table(t).Get(id).Replace(doc): insert when absent, replace when present.
Replace(tbl, doc) == (tbl \ TableGet(tbl, doc.id)) \cup {doc}

\* Variant of Between with the right bound closed.
BetweenMutClosed(tbl, hi) == {rec \in tbl : rec.expires <= hi}

\* r.Table(t).Between(lo, hi, {Index: "expires"}): left bound closed, right open.
Between(tbl, hi) == {rec \in tbl : rec.expires < hi}

\* r.Table(t).Count()
TableCount(tbl) == Cardinality(tbl)

\* ------------------------------------------------------------------ store
\* The Options struct a session's Options pointer refers to: New stores
\* &(*s.Options), which is the store's own pointer, so every session New returns
\* shares the store's Options struct.
OptionsOf(sn, st) == st.Options

\* Variant of save that extends the expires of the record it replaces.
saveMutAccumulate(sn, st, tbl, t, fault) ==
    LET enc == GobEncode(sn.Values, fault # "gob")
        age0 == OptionsOf(sn, st).MaxAge
        age == IF age0 = 0 THEN st.DefaultMaxAge ELSE age0
        old == TableGet(tbl, sn.ID)
        expires == IF old = {} THEN t + age ELSE (CHOOSE rec \in old : TRUE).expires + age
    IN IF enc.err # "nil" THEN [err |-> enc.err, table |-> tbl]
       ELSE IF fault = "db" THEN [err |-> "db", table |-> tbl]
       ELSE [err |-> "nil",
             table |-> Replace(tbl, [id |-> sn.ID, expires |-> expires, session |-> enc.bytes])]

\* Variant of save that takes sessionExpire when MaxAge is 0.
saveMutDefaultAge(sn, st, tbl, t, fault) ==
    LET enc == GobEncode(sn.Values, fault # "gob")
        age0 == OptionsOf(sn, st).MaxAge
        age == IF age0 = 0 THEN sessionExpire ELSE age0
        expires == t + age
    IN IF enc.err # "nil" THEN [err |-> enc.err, table |-> tbl]
       ELSE IF fault = "db" THEN [err |-> "db", table |-> tbl]
       ELSE [err |-> "nil",
             table |-> Replace(tbl, [id |-> sn.ID, expires |-> expires, session |-> enc.bytes])]

\* save: serialize Values, derive expires, replace the record.
save(sn, st, tbl, t, fault) ==
    LET enc == GobEncode(sn.Values, fault # "gob")
        age0 == OptionsOf(sn, st).MaxAge
        age == IF age0 = 0 THEN st.DefaultMaxAge ELSE age0
        expires == t + age
    IN IF enc.err # "nil" THEN [err |-> enc.err, table |-> tbl]
       ELSE IF fault = "db" THEN [err |-> "db", table |-> tbl]
       ELSE [err |-> "nil",
             table |-> Replace(tbl, [id |-> sn.ID, expires |-> expires, session |-> enc.bytes])]

\* load: fetch by id and decode the payload into session.Values.
load(sn, tbl, fault) ==
    LET res == TableGet(tbl, sn.ID)
    IN IF fault = "db" THEN [ok |-> FALSE, err |-> "db", Values |-> sn.Values]
       ELSE IF res = {} THEN [ok |-> FALSE, err |-> "empty", Values |-> sn.Values]
       ELSE LET data == CHOOSE rec \in res : TRUE
                dec == GobDecode(sn.Values, data.session, fault # "gob")
            IN [ok |-> TRUE, err |-> dec.err, Values |-> dec.values]

\* Variant of NewSession that loads the record although the cookie fails to verify.
NewSessionMutLoadAnyway(r, c, st, tbl, t, fault) ==
    LET s0 == [ID |-> NoID, Values |-> EmptyValues, IsNew |-> TRUE, req |-> r,
               live |-> TRUE]
    IN IF c = NoCookie THEN [session |-> s0, err |-> "nil", lookup |-> FALSE]
       ELSE IF c.kind # "enc"
            THEN [session |-> s0, err |-> "securecookie", lookup |-> FALSE]
       ELSE LET s1 == [s0 EXCEPT !.ID = c.id]
                l == load(s1, tbl, fault)
            IN [session |-> [s1 EXCEPT !.Values = l.Values,
                                        !.IsNew = ~(l.err = "nil" /\ l.ok)],
                err |-> IF DecodeOk(c) THEN "nil" ELSE "securecookie", lookup |-> TRUE]

\* Variant of NewSession that loads only a record that has not expired.
NewSessionMutExpiry(r, c, st, tbl, t, fault) ==
    LET s0 == [ID |-> NoID, Values |-> EmptyValues, IsNew |-> TRUE, req |-> r,
               live |-> TRUE]
    IN IF c = NoCookie THEN [session |-> s0, err |-> "nil", lookup |-> FALSE]
       ELSE IF ~DecodeOk(c)
            THEN [session |-> s0, err |-> "securecookie", lookup |-> FALSE]
       ELSE LET s1 == [s0 EXCEPT !.ID = c.id]
                l == load(s1, {rec \in tbl : rec.expires >= t}, fault)
            IN [session |-> [s1 EXCEPT !.Values = l.Values,
                                        !.IsNew = ~(l.err = "nil" /\ l.ok)],
                err |-> "nil", lookup |-> TRUE]

\* Variant of NewSession that takes the session for loaded whenever a record was
\* found, whatever load's error.
NewSessionMutOkOnly(r, c, st, tbl, t, fault) ==
    LET s0 == [ID |-> NoID, Values |-> EmptyValues, IsNew |-> TRUE, req |-> r,
               live |-> TRUE]
    IN IF c = NoCookie THEN [session |-> s0, err |-> "nil", lookup |-> FALSE]
       ELSE IF ~DecodeOk(c)
            THEN [session |-> s0, err |-> "securecookie", lookup |-> FALSE]
       ELSE LET s1 == [s0 EXCEPT !.ID = c.id]
                l == load(s1, tbl, fault)
            IN [session |-> [s1 EXCEPT !.Values = l.Values, !.IsNew = ~l.ok],
                err |-> "nil", lookup |-> TRUE]

\* New's body: the session object it returns, the error it returns and whether
\* it queried the database.
NewSession(r, c, st, tbl, t, fault) ==
    LET s0 == [ID |-> NoID, Values |-> EmptyValues, IsNew |-> TRUE, req |-> r,
               live |-> TRUE]
    IN IF c = NoCookie THEN [session |-> s0, err |-> "nil", lookup |-> FALSE]
       ELSE IF ~DecodeOk(c)
            THEN [session |-> s0, err |-> "securecookie", lookup |-> FALSE]
       ELSE LET s1 == [s0 EXCEPT !.ID = c.id]
                l == load(s1, tbl, fault)
            IN [session |-> [s1 EXCEPT !.Values = l.Values,
                                        !.IsNew = ~(l.err = "nil" /\ l.ok)],
                err |-> "nil", lookup |-> TRUE]

\* Variant of SaveResult that writes the cookie before it looks at the errors.
SaveMutCookieFirst(sn, st, tbl, t, fresh, fault) ==
    LET opts == OptionsOf(sn, st)
        id == IF sn.ID = NoID THEN fresh ELSE sn.ID
        sv == save([sn EXCEPT !.ID = id], st, tbl, t, fault)
        ck == <<[value |-> EncodeMulti(id), MaxAge |-> opts.MaxAge]>>
    IN IF opts.MaxAge < 0
       THEN [err |-> "nil", table |-> tbl, ID |-> sn.ID,
             cookies |-> <<[value |-> EmptyCookie, MaxAge |-> opts.MaxAge]>>]
       ELSE IF sv.err # "nil"
            THEN [err |-> sv.err, table |-> tbl, ID |-> id, cookies |-> ck]
       ELSE IF fault = "codec"
            THEN [err |-> "securecookie", table |-> sv.table, ID |-> id, cookies |-> ck]
       ELSE [err |-> "nil", table |-> sv.table, ID |-> id, cookies |-> ck]

\* Save's body: the error, the table, the session's id and the cookies written
\* to the response.
SaveResult(sn, st, tbl, t, fresh, fault) ==
    LET opts == OptionsOf(sn, st)
        id == IF sn.ID = NoID THEN fresh ELSE sn.ID
        sv == save([sn EXCEPT !.ID = id], st, tbl, t, fault)
    IN IF opts.MaxAge < 0
       THEN [err |-> "nil", table |-> tbl, ID |-> sn.ID,
             cookies |-> <<[value |-> EmptyCookie, MaxAge |-> opts.MaxAge]>>]
       ELSE IF sv.err # "nil"
            THEN [err |-> sv.err, table |-> tbl, ID |-> id, cookies |-> <<>>]
       ELSE IF fault = "codec"
            THEN [err |-> "securecookie", table |-> sv.table, ID |-> id, cookies |-> <<>>]
       ELSE [err |-> "nil", table |-> sv.table, ID |-> id,
             cookies |-> <<[value |-> EncodeMulti(id), MaxAge |-> opts.MaxAge]>>]

\* Variant of NewStore in which a failed creation of the database, the table or
\* the index is fatal.
NewStoreMutCreateFatal(connOk, createOk) ==
    IF ~connOk \/ ~createOk
    THEN [err |-> "connect", returned |-> FALSE]
    ELSE [err |-> "nil", returned |-> TRUE,
          store |-> [Options |-> DefaultOptions, DefaultMaxAge |-> 0]]

\* NewRethinkStore's body: the error and the store it returns.  connOk is whether
\* r.Connect succeeds, createOk whether DBCreate, TableCreate and IndexCreate do
\* (they fail when the database, the table or the index exists); their errors
\* are dropped.  Options is {Path "/", MaxAge sessionExpire}, MaxAge(sessionExpire)
\* sets Options.MaxAge again, and DefaultMaxAge keeps Go's zero value.
NewStore(connOk, createOk) ==
    IF ~connOk
    THEN [err |-> "connect", returned |-> FALSE]
    ELSE [err |-> "nil", returned |-> TRUE,
          store |-> [Options |-> DefaultOptions, DefaultMaxAge |-> 0]]

\* ------------------------------------------------------------- operations
\* last is the return of the latest call on the store: the operation, its error,
\* the session (slot) New, Get or Save acted on or the number Count returned, and
\* a flag: New/Get created the session object; Save repeats the Save before it
\* (same session, Values and MaxAge, and that Save succeeded), or, for a Save in
\* two steps, the record changed between the steps.
\* Also for NewRethinkStore the flag is whether a store was returned.
\* The first NewRethinkStore has succeeded; the table is new.
Init ==
    /\ table = {}
    /\ store = NewStore(TRUE, TRUE).store
    /\ sessions = [s \in 1..MaxSess |-> NoSession]
    /\ requests = [r \in 1..MaxReq |-> NoRequest]
    /\ jar = {}
    /\ now = 0
    /\ nextId = 1
    /\ last = [op |-> "NewRethinkStore", err |-> "nil", s |-> 0, flag |-> TRUE]
    /\ saved = {}
    /\ deletedIds = {}
    /\ zero = [id |-> NoID]
    /\ inflight = [r \in 1..MaxReq |-> NoDoc]

\* The cookie values a client can send: none, any value some response carried
\* (jar), or such a value with a byte flipped.
ClientCookies ==
    {NoCookie} \cup jar \cup {[c EXCEPT !.mac = FALSE] : c \in {x \in jar : x.kind = "enc"}}

\* New and Get put the session they create in the first free slot of the heap.
FreeSlots == {s \in 1..MaxSess : ~sessions[s].live}
FreeSlot == CHOOSE s \in FreeSlots : \A s2 \in FreeSlots : s <= s2

\* NewRethinkStore is called again between requests, over the table that exists
\* (the process restarts): the program goes on with the store it returns, or with
\* the store it had when none is returned.  Creating a table that exists is an
\* error of the database and changes no record.
NewRethinkStore(connOk, createOk) ==
    /\ \A r \in 1..MaxReq : ~requests[r].open
    /\ LET n == NewStore(connOk, createOk)
       IN /\ store' = IF n.returned THEN n.store ELSE store
          /\ last' = [op |-> "NewRethinkStore", err |-> n.err, s |-> 0, flag |-> n.returned]
    /\ UNCHANGED <<table, sessions, requests, jar, now, nextId, saved, deletedIds, zero, inflight>>

\* A request arrives carrying cookie c; its registry is empty.
BeginRequest(r, c) ==
    /\ ~requests[r].open
    /\ \A r2 \in 1..(r - 1) : requests[r2].open
    /\ requests' = [requests EXCEPT ![r] = [open |-> TRUE, cookie |-> c, reg |-> 0, regErr |-> "nil"]]
    /\ UNCHANGED <<table, store, sessions, jar, now, nextId, last, saved, deletedIds, zero, inflight>>

\* The request is over: its registry and its session objects are dropped.
EndRequest(r) ==
    /\ requests[r].open
    /\ requests' = [requests EXCEPT ![r] = NoRequest]
    /\ sessions' = [s \in 1..MaxSess |->
                      IF sessions[s].live /\ sessions[s].req = r THEN NoSession ELSE sessions[s]]
    /\ last' = [op |-> "EndRequest", err |-> "nil", s |-> 0, flag |-> FALSE]
    /\ UNCHANGED <<table, store, jar, now, nextId, saved, deletedIds, zero, inflight>>

\* RethinkStore.New(r, name): always a new session object.  fault is what goes
\* wrong in the lookup, when there is one.
New(r, fault) ==
    /\ requests[r].open
    /\ FreeSlots # {}
    /\ LET n == NewSession(r, requests[r].cookie, store, table, now, fault)
       IN /\ n.lookup \/ fault = "none"
          /\ sessions' = [sessions EXCEPT ![FreeSlot] = n.session]
          /\ last' = [op |-> "New", err |-> n.err, s |-> FreeSlot, flag |-> TRUE]
    /\ UNCHANGED <<table, store, requests, jar, now, nextId, saved, deletedIds, zero, inflight>>

\* Variant of Get that runs New although the registry holds a session.
GetMutAlwaysNew(r, fault) ==
    /\ requests[r].open
    /\ FreeSlots # {}
    /\ LET n == NewSession(r, requests[r].cookie, store, table, now, fault)
       IN /\ n.lookup \/ fault = "none"
          /\ sessions' = [sessions EXCEPT ![FreeSlot] = n.session]
          /\ requests' = [requests EXCEPT ![r].reg = FreeSlot, ![r].regErr = n.err]
          /\ last' = [op |-> "Get", err |-> n.err, s |-> FreeSlot, flag |-> TRUE]
    /\ UNCHANGED <<table, store, jar, now, nextId, saved, deletedIds, zero, inflight>>

\* RethinkStore.Get(r, name) = sessions.GetRegistry(r).Get(s, name): the session
\* the registry holds for the name, or else the result of New, which the
\* registry then holds together with New's error.
Get(r, fault) ==
    /\ requests[r].open
    /\ IF requests[r].reg # 0
       THEN /\ fault = "none"
            /\ last' = [op |-> "Get", err |-> requests[r].regErr, s |-> requests[r].reg,
                        flag |-> FALSE]
            /\ UNCHANGED <<sessions, requests>>
       ELSE /\ FreeSlots # {}
            /\ LET n == NewSession(r, requests[r].cookie, store, table, now, fault)
               IN /\ n.lookup \/ fault = "none"
                  /\ sessions' = [sessions EXCEPT ![FreeSlot] = n.session]
                  /\ requests' = [requests EXCEPT ![r].reg = FreeSlot, ![r].regErr = n.err]
                  /\ last' = [op |-> "Get", err |-> n.err, s |-> FreeSlot, flag |-> TRUE]
    /\ UNCHANGED <<table, store, jar, now, nextId, saved, deletedIds, zero, inflight>>

\* The handler of request r sets session.Values = v and session.Options.MaxAge = a
\* (a write through the session's Options pointer, which is the store's Options)
\* and calls RethinkStore.Save(r, w, session); fault is what goes wrong in it.
Save(r, s, v, a, fault) ==
    /\ sessions[s].live
    /\ r = sessions[s].req
    /\ (sessions[s].ID = NoID /\ a >= 0) => nextId <= MaxIds
    /\ a < 0 => fault = "none"
    /\ LET sn == [sessions[s] EXCEPT !.Values = v]
           st == [store EXCEPT !.Options.MaxAge = a]
       IN \E res \in {SaveResult(sn, st, table, now, nextId, fault)} :
          LET ok == res.err = "nil" /\ a >= 0
          IN
          /\ table' = res.table
          /\ store' = st
          /\ sessions' = [sessions EXCEPT ![s] = [sn EXCEPT !.ID = res.ID]]
          /\ nextId' = IF sn.ID = NoID /\ a >= 0 THEN nextId + 1 ELSE nextId
          /\ jar' = jar \cup {res.cookies[i].value : i \in 1..Len(res.cookies)}
          /\ last' = [op |-> "Save", err |-> res.err, s |-> s,
                      flag |-> /\ last.op = "Save" /\ last.s = s /\ last.err = "nil"
                               /\ sessions[s].Values = v /\ store.Options.MaxAge = a]
          \* history, for the properties
          /\ saved' = IF a < 0 \/ res.err \in {"gob", "db"} THEN saved
                      ELSE {e \in saved : e.id # res.ID}
                           \cup (IF ok THEN {[id |-> res.ID, values |-> v]} ELSE {})
          /\ deletedIds' = IF a < 0 THEN deletedIds \cup ({sn.ID} \ {NoID})
                           ELSE deletedIds \ {res.ID}
          /\ zero' = IF ok /\ a = 0
                     THEN [id |-> res.ID, t |-> now, count |-> TableCount(table),
                           existed |-> TableGet(table, res.ID) # {}]
                     ELSE IF res.table = table /\ (a < 0 \/ res.err \in {"gob", "db"}) THEN zero
                     ELSE [id |-> NoID]
    /\ UNCHANGED <<requests, now, inflight>>

\* RethinkStore.DeleteExpired(): delete the records Between(MinVal, Now()).
DeleteExpired(dbOk) ==
    /\ table' = IF dbOk THEN table \ Between(table, now) ELSE table
    /\ last' = [op |-> "DeleteExpired", err |-> IF dbOk THEN "nil" ELSE "db", s |-> 0,
                flag |-> FALSE]
    \* history, for the properties
    /\ saved' = {e \in saved : TableGet(table', e.id) # {}}
    /\ zero' = IF zero.id = NoID \/ table' = table THEN zero
               ELSE IF (table \ table') \subseteq TableGet(table, zero.id) THEN zero
               ELSE [id |-> NoID]
    /\ UNCHANGED <<store, sessions, requests, jar, now, nextId, deletedIds, inflight>>

\* RethinkStore.Count(): the number of records, or (0, err).
Count(dbOk) ==
    /\ last' = [op |-> "Count", err |-> IF dbOk THEN "nil" ELSE "db", flag |-> FALSE,
                s |-> IF dbOk THEN TableCount(table) ELSE 0]
    /\ UNCHANGED <<table, store, sessions, requests, jar, now, nextId, saved, deletedIds, zero, inflight>>

\* time.Now() and r.Now() advance.
Tick(d) ==
    /\ now + d <= MaxTicks
    /\ now' = now + d
    /\ UNCHANGED <<table, store, sessions, requests, jar, nextId, last, saved, deletedIds, zero, inflight>>

Next ==
    \/ \E r \in 1..MaxReq, c \in ClientCookies : BeginRequest(r, c)
    \/ \E r \in 1..MaxReq : EndRequest(r)
    \/ \E r \in 1..MaxReq, fault \in LoadFaults : New(r, fault)
    \/ \E r \in 1..MaxReq, fault \in LoadFaults : Get(r, fault)
    \/ \E r \in 1..MaxReq, s \in 1..MaxSess, v \in ValueMaps,
          a \in MaxAges \cup {store.Options.MaxAge}, fault \in Faults :
          Save(r, s, v, a, fault)
    \/ \E dbOk \in BOOLEAN : DeleteExpired(dbOk)
    \/ \E dbOk \in BOOLEAN : Count(dbOk)
    \/ \E d \in Advances : Tick(d)

Spec == Init /\ [][Next]_vars

\* The store is built again between requests: requests that create and save
\* sessions, and calls of NewRethinkStore over the table they leave.
NextRestart ==
    \/ \E connOk \in BOOLEAN, createOk \in BOOLEAN : NewRethinkStore(connOk, createOk)
    \/ \E r \in 1..MaxReq, c \in ClientCookies : BeginRequest(r, c)
    \/ \E r \in 1..MaxReq : EndRequest(r)
    \/ \E r \in 1..MaxReq : New(r, "none")
    \/ \E r \in 1..MaxReq, s \in 1..MaxSess, v \in ValueMaps,
          a \in MaxAges \cup {store.Options.MaxAge} : Save(r, s, v, a, "none")
    \/ \E d \in Advances : Tick(d)

SpecRestart == Init /\ [][NextRestart]_vars

\* Handlers that save with a positive MaxAge, a shorter one or the default.
NextAges ==
    \/ \E r \in 1..MaxReq, c \in ClientCookies : BeginRequest(r, c)
    \/ \E r \in 1..MaxReq : EndRequest(r)
    \/ \E r \in 1..MaxReq : New(r, "none")
    \/ \E r \in 1..MaxReq, s \in 1..MaxSess, v \in ValueMaps, a \in PositiveAges :
          Save(r, s, v, a, "none")
    \/ \E d \in Advances : Tick(d)

SpecAges == Init /\ [][NextAges]_vars

\* ------------------------------------------------------ concurrent requests
\* Requests served at the same time, each by its own handler.  What the handlers
\* share is the table (and the store's Options, which these handlers only read),
\* so a Save is two steps: SaveEncode, up to the record save has computed
\* (src lines 258-304), and SaveReplace, the Replace and the cookie (306, 268-272).
InitRace ==
    /\ table = {}
    /\ store = NewStore(TRUE, TRUE).store
    /\ sessions = [s \in 1..MaxSess |-> NoSession]
    /\ requests = [r \in 1..RaceReqs |-> NoRequest]
    /\ jar = {}
    /\ now = 0
    /\ nextId = 1
    /\ last = [op |-> "NewRethinkStore", err |-> "nil", s |-> 0, flag |-> TRUE]
    /\ saved = {}
    /\ deletedIds = {}
    /\ zero = [id |-> NoID]
    /\ inflight = [r \in 1..RaceReqs |-> NoDoc]

\* The handler of request r sets session.Values = v and calls Save, which runs
\* up to the record to write: the id, the payload and expires from the clock as
\* it is now.  seen is the record of that id in the table at this point.
SaveEncode(r, s, v) ==
    /\ sessions[s].live
    /\ r = sessions[s].req
    /\ ~inflight[r].busy
    /\ store.Options.MaxAge >= 0
    /\ sessions[s].ID = NoID => nextId <= MaxIds
    /\ LET id == IF sessions[s].ID = NoID THEN nextId ELSE sessions[s].ID
           sn == [sessions[s] EXCEPT !.Values = v, !.ID = id]
           doc == CHOOSE d \in save(sn, store, {}, now, "none").table : TRUE
       IN /\ sessions' = [sessions EXCEPT ![s] = sn]
          /\ nextId' = IF sessions[s].ID = NoID THEN nextId + 1 ELSE nextId
          /\ inflight' = [inflight EXCEPT ![r] = [busy |-> TRUE, s |-> s, doc |-> doc,
                                                  seen |-> TableGet(table, id)]]
    /\ UNCHANGED <<table, store, requests, jar, now, last, saved, deletedIds, zero>>

\* The Save of request r replaces the record and sets the cookie.  The flag of
\* last is whether the record changed between this Save's two steps.
SaveReplace(r) ==
    /\ inflight[r].busy
    /\ LET f == inflight[r]
       IN /\ table' = Replace(table, f.doc)
          /\ jar' = jar \cup {EncodeMulti(f.doc.id)}
          /\ last' = [op |-> "Save", err |-> "nil", s |-> f.s,
                      flag |-> TableGet(table, f.doc.id) # f.seen]
          /\ saved' = {e \in saved : e.id # f.doc.id}
                         \cup {[id |-> f.doc.id, values |-> sessions[f.s].Values]}
          /\ deletedIds' = deletedIds \ {f.doc.id}
          /\ zero' = [id |-> NoID]
          /\ inflight' = [inflight EXCEPT ![r] = NoDoc]
    /\ UNCHANGED <<store, sessions, requests, now, nextId>>

NextRace ==
    \/ \E r \in 1..RaceReqs, c \in ClientCookies : BeginRequest(r, c)
    \/ \E r \in 1..RaceReqs : ~inflight[r].busy /\ EndRequest(r)
    \/ \E r \in 1..RaceReqs : New(r, "none")
    \/ \E r \in 1..RaceReqs, s \in 1..MaxSess, v \in RaceValueMaps : SaveEncode(r, s, v)
    \/ \E r \in 1..RaceReqs : SaveReplace(r)
    \/ \E d \in Advances : Tick(d)

SpecRace == InitRace /\ [][NextRace]_vars

\* ------------------------------------------------------------- properties
Reqs == 1..MaxReq

\* The step is the store's New running for request r (a call of New, or a Get
\* that finds the registry empty); the session it returns is sessions'[last'.s].
Creates(r, fault) ==
    /\ last'.op \in {"New", "Get"}
    /\ last'.flag
    /\ requests[r].open
    /\ \/ New(r, fault)
       \/ requests[r].reg = 0 /\ Get(r, fault)

\* The step is a Save, of session last'.s with the Values and the MaxAge the
\* session holds after it, in which fault goes wrong.
SaveStep(fault) ==
    /\ last'.op = "Save"
    /\ now' = now
    /\ requests' = requests
    /\ Save(sessions'[last'.s].req, last'.s, sessions'[last'.s].Values,
            store'.Options.MaxAge, fault)

\* What that Save returned and wrote to the response.
SaveCall(fault) ==
    SaveResult([sessions[last'.s] EXCEPT !.Values = sessions'[last'.s].Values], store',
               table, now, nextId, fault)

\* C1: round trip.  When a request presents the cookie of id X, the cookie
\* verifies, the database answers, and the latest Save of X succeeded with Values
\* V and its record has not been removed since, the session New/Get returns has
\* IsNew = FALSE and Values = V.
C1_RoundTrip ==
    [][\A r \in Reqs :
         (/\ Creates(r, "none")
          /\ DecodeOk(requests[r].cookie)
          /\ \E e \in saved : e.id = requests[r].cookie.id)
         => \A e \in saved :
              e.id = requests[r].cookie.id
              => /\ ~sessions'[last'.s].IsNew
                 /\ sessions'[last'.s].Values = e.values
                 /\ sessions'[last'.s].ID = e.id]_vars

C1_Witness ==
    /\ last.op \in {"New", "Get"}
    /\ last.flag
    /\ sessions[last.s].live
    /\ ~sessions[last.s].IsNew
    /\ sessions[last.s].Values # EmptyValues
    /\ \E e \in saved : e.id = sessions[last.s].ID /\ e.values = sessions[last.s].Values

\* C2: deletion clears backing state.  After a Save of a session with id X and
\* MaxAge < 0 that returned no error, the table holds no record X and the
\* response carries the empty cookie that expires at once.
C2_DeletionClears ==
    [][\A fault \in Faults :
         (/\ SaveStep(fault)
          /\ store'.Options.MaxAge < 0
          /\ sessions[last'.s].ID # NoID
          /\ last'.err = "nil")
         => /\ TableGet(table', sessions[last'.s].ID) = {}
            /\ SaveCall(fault).cookies
                 = <<[value |-> EmptyCookie, MaxAge |-> store'.Options.MaxAge]>>]_vars

\* C3: DELETED leads to ABSENT.  While X is deleted (a Save with MaxAge < 0 for X
\* succeeded and no other Save for X came after), New/Get returns IsNew = TRUE
\* and empty Values for a request with no cookie, with the cleared cookie or
\* with the signed cookie of X.
C3_DeletedIsAbsent ==
    [][\A r \in Reqs, fault \in LoadFaults :
         (/\ Creates(r, fault)
          /\ deletedIds # {}
          /\ \/ requests[r].cookie \in {NoCookie, EmptyCookie}
             \/ DecodeOk(requests[r].cookie) /\ requests[r].cookie.id \in deletedIds)
         => /\ sessions'[last'.s].IsNew
            /\ sessions'[last'.s].Values = EmptyValues]_vars

\* C4: default max-age.  A Save at time t with MaxAge = 0 that returned no error
\* stores expires = t + 30 days.
C4_DefaultMaxAge ==
    [][\A fault \in Faults :
         (/\ SaveStep(fault)
          /\ store'.Options.MaxAge = 0
          /\ last'.err = "nil")
         => \E rec \in TableGet(table', sessions'[last'.s].ID) :
               rec.expires = now + sessionExpire]_vars

C7_TamperedRejected ==
    [][\A r \in Reqs, fault \in LoadFaults :
         (/\ Creates(r, fault)
          /\ requests[r].cookie # NoCookie
          /\ ~DecodeOk(requests[r].cookie))
         => /\ sessions'[last'.s].IsNew
            /\ sessions'[last'.s].ID = NoID
            /\ sessions'[last'.s].Values = EmptyValues
            /\ last'.err # "nil"
            /\ ~NewSession(r, requests[r].cookie, store, table, now, fault).lookup]_vars

C7_Witness ==
    /\ last.op \in {"New", "Get"}
    /\ last.flag
    /\ last.err = "securecookie"
    /\ sessions[last.s].live
    /\ requests[sessions[last.s].req].cookie.kind = "enc"
    /\ ~requests[sessions[last.s].req].cookie.mac
    /\ TableGet(table, requests[sessions[last.s].req].cookie.id) # {}

\* C8: no cookie on a failed save.  A Save that returns an error has written no
\* Set-Cookie header.
C8_NoCookieOnError ==
    [][\A fault \in Faults :
         (/\ SaveStep(fault)
          /\ last'.err # "nil")
         => /\ SaveCall(fault).cookies = <<>>
            /\ jar' = jar]_vars

C8_Witness ==
    /\ last.op = "Save"
    /\ last.err \in {"gob", "db", "securecookie"}
    /\ jar = {}
    /\ sessions[last.s].ID # NoID

\* C9: idempotent re-save.  Saving the same session again, with the same Values
\* and the same MaxAge >= 0, right after a Save of it that succeeded: the id is
\* unchanged, one record has that id and Count is unchanged, expires is not
\* earlier than before, and loading yields the same Values after either Save.
C9_Resave ==
    [][\A fault \in Faults :
         (/\ SaveStep(fault)
          /\ store'.Options.MaxAge >= 0
          /\ last'.flag
          /\ last'.err = "nil")
         => LET id == sessions[last'.s].ID
                probe == [ID |-> id, Values |-> EmptyValues]
            IN /\ id # NoID
               /\ sessions'[last'.s].ID = id
               /\ Cardinality(TableGet(table, id)) = 1
               /\ Cardinality(TableGet(table', id)) = 1
               /\ TableCount(table') = TableCount(table)
               /\ \A r1 \in TableGet(table, id), r2 \in TableGet(table', id) :
                     r2.expires >= r1.expires
               /\ load(probe, table, "none").Values = sessions[last'.s].Values
               /\ load(probe, table', "none").Values = sessions[last'.s].Values]_vars

C9_Witness ==
    /\ last.op = "Save"
    /\ last.flag
    /\ last.err = "nil"
    /\ store.Options.MaxAge >= 0
    /\ sessions[last.s].Values # EmptyValues
    /\ \E rec \in TableGet(table, sessions[last.s].ID) : rec.expires = now + store.Options.MaxAge
    /\ now >= 1

\* C10: registry coalescing.  A Get on a request whose registry holds a session
\* returns that session and creates none; a Get on an empty registry returns the
\* session it creates and the registry holds it from then on; New returns a
\* session object that did not exist before and that no registry holds.
C10_Registry ==
    [][\A r \in Reqs, fault \in LoadFaults :
         /\ (last'.op = "Get" /\ requests[r].open /\ Get(r, fault))
            => /\ last'.s = requests'[r].reg
               /\ requests[r].reg # 0
                  => /\ requests'[r].reg = requests[r].reg
                     /\ sessions' = sessions
                     /\ ~last'.flag
               /\ requests[r].reg = 0
                  => /\ ~sessions[last'.s].live
                     /\ sessions'[last'.s].live
         /\ (last'.op = "New" /\ requests[r].open /\ New(r, fault))
            => /\ ~sessions[last'.s].live
               /\ sessions'[last'.s].live
               /\ \A r2 \in Reqs : requests'[r2].open => requests'[r2].reg # last'.s
               /\ requests' = requests]_vars

C10_Witness ==
    /\ last.op = "Get"
    /\ ~last.flag
    /\ \E s \in 1..MaxSess :
         s # last.s /\ sessions[s].live /\ sessions[s].req = sessions[last.s].req

\* C11: per-session options.  A Save, with whatever the handler wrote to the
\* session's Options.MaxAge, leaves the store's Options as they were, and every
\* session New/Get creates starts with the default Options: Path "/" and MaxAge
\* 30 days.
C11_OptionsPerSession ==
    [][/\ \A fault \in Faults : SaveStep(fault) => store'.Options = store.Options
       /\ \A r \in Reqs, fault \in LoadFaults :
            Creates(r, fault) => OptionsOf(sessions'[last'.s], store') = DefaultOptions]_vars

\* C12: a payload that does not decode.  When the cookie verifies and the record
\* is found but gob cannot decode its payload, New/Get returns a session with
\* IsNew = TRUE together with an error.
C12_DecodeFailureReported ==
    [][\A r \in Reqs :
         (/\ Creates(r, "gob")
          /\ DecodeOk(requests[r].cookie)
          /\ TableGet(table, requests[r].cookie.id) # {})
         => /\ sessions'[last'.s].live
            /\ sessions'[last'.s].IsNew
            /\ last'.err # "nil"]_vars

\* C13: no partial state.  A Save that returns an error leaves the table as it
\* was, and a Save has set the cookie carrying the session's id exactly when it
\* has written the session's record.
C13_NoPartialState ==
    [][\A fault \in Faults :
         SaveStep(fault)
         => LET cookies == SaveCall(fault).cookies
                cookieSet == \E i \in 1..Len(cookies) :
                                cookies[i].value = EncodeMulti(sessions'[last'.s].ID)
                written == /\ store'.Options.MaxAge >= 0
                           /\ save(sessions'[last'.s], store', table, now, fault).err = "nil"
            IN /\ last'.err # "nil" => table' = table
               /\ cookieSet <=> written]_vars

\* C14: session id.  A session object's ID becomes non-empty (in New/Get or in
\* Save) only with a record of that id in the table: not in a Save that fails on
\* a session never saved, and not in a New/Get on a cookie whose record is
\* absent.
C14_IdOnlyIfStored ==
    [][\A s \in 1..MaxSess :
         (/\ sessions'[s].live
          /\ sessions'[s].ID # NoID
          /\ ~sessions[s].live \/ sessions[s].ID = NoID)
         => TableGet(table', sessions'[s].ID) # {}]_vars

\* C15: IsNew.  New/Get returns IsNew = FALSE exactly when the request carries a
\* cookie, the cookie verifies, the lookup returns a record of the decoded id and
\* its payload decodes; the error is nil when there is no cookie and when the
\* lookup finds no record.
C15_IsNewDerivation ==
    [][\A r \in Reqs, fault \in LoadFaults :
         Creates(r, fault)
         => LET c == requests[r].cookie
                found == /\ c # NoCookie
                         /\ DecodeOk(c)
                         /\ fault # "db"
                         /\ TableGet(table, c.id) # {}
            IN /\ ~sessions'[last'.s].IsNew <=> (found /\ fault # "gob")
               /\ c = NoCookie => last'.err = "nil"
               /\ (DecodeOk(c) /\ fault = "none" /\ TableGet(table, c.id) = {})
                  => last'.err = "nil"]_vars

C15_Witness ==
    /\ last.op \in {"New", "Get"}
    /\ last.flag
    /\ last.err = "nil"
    /\ sessions[last.s].live
    /\ sessions[last.s].IsNew
    /\ sessions[last.s].ID # NoID
    /\ TableGet(table, sessions[last.s].ID) = {}
    /\ DecodeOk(requests[sessions[last.s].req].cookie)

\* C16: expiry is recomputed.  A Save at time t with MaxAge = n > 0 that returns
\* no error stores expires = t + n, whatever the expires of the record it
\* replaces: later or earlier than before, never the old value extended.
C16_ExpiryRecomputed ==
    [][\A fault \in Faults :
         (/\ SaveStep(fault)
          /\ store'.Options.MaxAge > 0
          /\ last'.err = "nil")
         => /\ TableGet(table', sessions'[last'.s].ID) # {}
            /\ \A rec \in TableGet(table', sessions'[last'.s].ID) :
                  rec.expires = now + store'.Options.MaxAge]_vars

\* A session loaded from its record has been saved again, later and with the
\* shorter MaxAge.
C16_Witness ==
    /\ last.op = "Save"
    /\ last.err = "nil"
    /\ ~sessions[last.s].IsNew
    /\ store.Options.MaxAge = 3600
    /\ now >= 1
    /\ \E rec \in TableGet(table, sessions[last.s].ID) : rec.expires = now + 3600

\* C17: upsert.  A Save with MaxAge >= 0 of a session whose ID is X, in which
\* nothing goes wrong, returns no error whether or not a record X exists, and
\* afterwards the table holds exactly one record X, with the payload and the
\* expires of this Save; the other records are as before.
C17_Upsert ==
    [][(/\ SaveStep("none")
        /\ store'.Options.MaxAge >= 0
        /\ sessions[last'.s].ID # NoID)
       => LET X == sessions[last'.s].ID
              a == store'.Options.MaxAge
              doc == [id |-> X,
                      expires |-> now + (IF a = 0 THEN store.DefaultMaxAge ELSE a),
                      session |-> GobEncode(sessions'[last'.s].Values, TRUE).bytes]
          IN /\ last'.err = "nil"
             /\ TableGet(table', X) = {doc}
             /\ table' \ {doc} = table \ TableGet(table, X)]_vars

\* A Save has inserted the record of a session that was loaded from a record
\* removed since.
C17_Witness ==
    /\ last.op = "Save"
    /\ last.err = "nil"
    /\ ~sessions[last.s].IsNew
    /\ zero.id = sessions[last.s].ID
    /\ zero.t = now
    /\ ~zero.existed
    /\ Cardinality(TableGet(table, zero.id)) = 1

\* C18: last write wins.  With requests served at the same time that loaded the
\* same id and changed Values differently, every Save returns no error, and the
\* Replace of a Save leaves, as the one record of the id, the payload and the
\* expires that this Save computed, whatever the other requests wrote before or
\* between this Save's steps; the other records are untouched.
C18_LastWriteWins ==
    [][\A r \in 1..RaceReqs :
         (/\ last'.op = "Save"
          /\ inflight[r].busy
          /\ SaveReplace(r))
         => LET doc == inflight[r].doc
            IN /\ last'.err = "nil"
               /\ TableGet(table', doc.id) = {doc}
               /\ doc.session = GobEncode(sessions[inflight[r].s].Values, TRUE).bytes
               /\ table' \ {doc} = table \ TableGet(table, doc.id)]_vars

\* Two requests hold sessions loaded from the same id with different Values, and
\* the Save that wrote last overwrote what the other wrote between its steps.
C18_Witness ==
    /\ last.op = "Save"
    /\ last.flag
    /\ \E s \in 1..MaxSess :
         /\ s # last.s
         /\ sessions[s].live
         /\ sessions[s].req # sessions[last.s].req
         /\ sessions[s].ID = sessions[last.s].ID
         /\ ~sessions[s].IsNew
         /\ ~sessions[last.s].IsNew
         /\ sessions[s].Values # sessions[last.s].Values
         /\ sessions[s].Values # EmptyValues
         /\ ~inflight[sessions[s].req].busy
         /\ \E rec \in TableGet(table, sessions[s].ID) :
               rec.session = GobEncode(sessions[last.s].Values, TRUE).bytes

\* C19: loading ignores expiry.  New/Get with a cookie that verifies, when the
\* lookup answers and the record is in the table, returns IsNew = FALSE and the
\* record's Values whatever the record's expires, also one in the past; New/Get
\* never change the table.
C19_LoadIgnoresExpiry ==
    [][\A r \in Reqs, fault \in LoadFaults :
         Creates(r, fault)
         => /\ table' = table
            /\ (/\ fault = "none"
                /\ DecodeOk(requests[r].cookie)
                /\ TableGet(table, requests[r].cookie.id) # {})
               => \A rec \in TableGet(table, requests[r].cookie.id) :
                     /\ ~sessions'[last'.s].IsNew
                     /\ sessions'[last'.s].Values
                          = GobDecode(EmptyValues, rec.session, TRUE).values]_vars

C19_Witness ==
    /\ last.op \in {"New", "Get"}
    /\ last.flag
    /\ sessions[last.s].live
    /\ ~sessions[last.s].IsNew
    /\ sessions[last.s].Values # EmptyValues
    /\ \E rec \in TableGet(table, sessions[last.s].ID) : rec.expires < now

\* C20: construction.  NewRethinkStore returns an error, and no store, exactly
\* when the connection fails; whether the database, the table and the index can
\* be created makes no difference, the store returned has the default Options,
\* and the records of the table are as they were.
C20_Construction ==
    [][\A connOk \in BOOLEAN, createOk \in BOOLEAN :
         (last'.op = "NewRethinkStore" /\ NewRethinkStore(connOk, createOk))
         => /\ last'.err # "nil" <=> ~connOk
            /\ last'.flag <=> connOk
            /\ NewStore(connOk, createOk).returned <=> connOk
            /\ connOk => store' = [Options |-> DefaultOptions, DefaultMaxAge |-> 0]
            /\ table' = table]_vars

C20_Witness ==
    /\ last.op = "NewRethinkStore"
    /\ last.err = "nil"
    /\ last.flag
    /\ table # {}
    /\ store.Options = DefaultOptions
    /\ \E rec \in table : rec.session # <<>>

====
